---- MODULE Spec2Model ----
(***************************************************************************)
(* Model of the geocoding service of gustaavosouzaa/apigo:                 *)
(*   - package geocode (Service.Geocode, normalizeAddress, the TTL cache)  *)
(*   - package server  (geocodeHandler's error-to-status mapping)          *)
(*                                                                         *)
(* Every request runs in its own goroutine, so Geocode is modelled as a    *)
(* process per goroutine whose steps are split exactly where the code      *)
(* touches shared state: the RWMutex, the items map, the clock, the        *)
(* caller's context and the upstream provider.  Code between two such      *)
(* points is local and is executed in the step that precedes it.           *)
(***************************************************************************)
EXTENDS Integers, Sequences, FiniteSets, TLC

(* ------------------------------ bounds -------------------------------- *)
\* longest raw address handed to Geocode (in characters)
MaxLen == 2
\* the clock runs from 0 to MaxTime
MaxTime == 2
\* longest result list of an upstream payload
MaxResults == 2
\* longest string normalizeAddress is applied to on its own
MaxRawLen == 3

(* ----------------------------- constants ------------------------------ *)
\* cache TTL, in clock ticks (main.go passes 30*time.Minute: one tick is 30 min)
TTL == 1

\* The goroutines: two requests in flight at once, the fewest that exhibit
\* every race between two cache operations.
Procs == {"g1", "g2"}
NoProc == "none"

(* ------------------------------ strings ------------------------------- *)
\* A string is a sequence of characters; the alphabet has a lower-case
\* letter, its upper-case form and a white-space character.
Chars == {"a", "A", " "}
Strings(n) == UNION {[1..k -> Chars] : k \in 0..n}
EmptyString == <<>>

\* unicode.ToLower on one character
ToLowerChar(c) == IF c = "A" THEN "a" ELSE c
\* strings.ToLower
ToLower(s) == [i \in 1..Len(s) |-> ToLowerChar(s[i])]
\* unicode.IsSpace
IsSpace(c) == c = " "
RECURSIVE TrimLeft(_)
TrimLeft(s) == IF s # <<>> /\ IsSpace(Head(s)) THEN TrimLeft(Tail(s)) ELSE s
RECURSIVE TrimRight(_)
TrimRight(s) ==
  IF s # <<>> /\ IsSpace(s[Len(s)]) THEN TrimRight(SubSeq(s, 1, Len(s) - 1)) ELSE s
\* strings.TrimSpace
TrimSpace(s) == TrimRight(TrimLeft(s))

\* normalizeAddress without the lower-casing
normalizeAddress_NoLower(address) == TrimSpace(address)

\* normalizeAddress without the trimming
normalizeAddress_NoTrim(address) == ToLower(address)

\* func normalizeAddress(address string) string
normalizeAddress(address) == TrimSpace(ToLower(address))

\* What Geocode is called with: every spelling of one address and of the
\* empty one.  Calls for different addresses meet nowhere but in the cache,
\* whose keys are independent (see CacheKeys).
OneAddress == <<"a">>
RawAddresses ==
  {s \in Strings(MaxLen) : Cardinality({i \in 1..Len(s) : s[i] # " "}) <= 1}

\* the keys Geocode hands to the cache
Keys == {normalizeAddress(s) : s \in RawAddresses} \ {EmptyString}
\* the keys of the cache used on its own: to the cache a key is any string
CacheKeys == {<<"a">>, <<"a", "a">>}

(* ------------------------------ results ------------------------------- *)
\* type Result struct; Result{} is its zero value.  Coordinates are scaled
\* integers.
ZeroResult == [Address |-> "", Latitude |-> 0, Longitude |-> 0, Source |-> ""]

\* what one element of geocodeResponse.Results can hold
Places ==
  { [FormattedAddress |-> "1 Infinite Loop", Lat |-> 3733, Lng |-> -12203],
    [FormattedAddress |-> "Main St", Lat |-> 4070, Lng |-> -7400] }

SeqsUpTo(S, n) == UNION {[1..k -> S] : k \in 0..n}

\* type geocodeResponse struct
Payloads ==
  [ Status : {"OK", "REQUEST_DENIED"},
    ErrorMessage : {"", "denied"},
    Results : SeqsUpTo(Places, MaxResults) ]

\* What client.Do and the decoder can produce while the context is live:
\* a transport failure, or an HTTP response with a status code, 200 or
\* another, and a body that decodes into a payload or does not.
NoPayload == [Status |-> "", ErrorMessage |-> "", Results |-> <<>>]
Response(te, sc, de, pl) ==
  [transportErr |-> te, StatusCode |-> sc, decodeErr |-> de, payload |-> pl]
Responses ==
  {Response(TRUE, 0, FALSE, NoPayload)}
    \cup {Response(FALSE, 500, FALSE, pl) : pl \in Payloads \cup {NoPayload}}
    \cup {Response(FALSE, 200, TRUE, NoPayload)}
    \cup {Response(FALSE, 200, FALSE, pl) : pl \in Payloads}

\* What the claims say of an answer: which of the provider's outcomes it is
\* and, for status "OK" with results, the first of them.
NoPlace == [FormattedAddress |-> "", Lat |-> 0, Lng |-> 0]
AnswerKind(r) ==
  IF r.transportErr THEN "transport error"
  ELSE IF r.StatusCode # 200 THEN "non-200"
  ELSE IF r.decodeErr THEN "malformed"
  ELSE IF r.payload.Status # "OK"
    THEN IF r.payload.Results = <<>> THEN "not OK, no results"
         ELSE "not OK, results"
  ELSE IF r.payload.Results = <<>> THEN "OK, no results"
  ELSE "OK, results"
Answer(r) ==
  [ kind |-> AnswerKind(r),
    first |-> IF AnswerKind(r) = "OK, results" THEN Head(r.payload.Results)
              ELSE NoPlace ]
NoAnswer == [kind |-> "none", first |-> NoPlace]

(* ------------------------------- errors ------------------------------- *)
Err(kind, detail) == [kind |-> kind, detail |-> detail]
Nil == Err("nil", "")
ErrAddressRequired == Err("ErrAddressRequired", "address is required")
ErrNoResults == Err("ErrNoResults", "no results found")
DeadlineExceeded == Err("context.DeadlineExceeded", "")
Canceled == Err("context.Canceled", "")
ErrNewRequest == Err("newRequest", "")
ErrTransport == Err("transport", "")
ErrDecode == Err("decode", "")
ErrHTTPStatus(sc) == Err("google maps api returned status", ToString(sc))
ErrAPIError(msg) == Err("google maps api error", msg)
ErrAPIStatus(st) == Err("google maps api status", st)

VARIABLES
  now,       \* time.Now()
  items,     \* cache.items: a map from key to cacheItem
  readers,   \* cache.mu: the goroutines holding the read lock
  writer,    \* cache.mu: the goroutine holding the write lock, or NoProc
  apiKeyOK,  \* Service.apiKey yields a URL that http.NewRequest accepts
  pc,        \* where each goroutine is
  op,        \* what each goroutine was called for: "Geocode", "Get", "Set"
  key,       \* cache.Get / cache.Set: parameter key
  val,       \* cache.Set: parameter value
  item,      \* cache.Get: locals item, ok
  getRet,    \* cache.Get: what it returned
  address,   \* Geocode: local address
  ctxDone,   \* Geocode: the caller's context is canceled or past its deadline
  upstream,  \* Geocode: the answer of s.client.Do(req), as the claims see it
  ret,       \* Geocode: what it returned
  nUp,       \* upstream requests issued by the current invocation
  nGet,      \* cache.Get calls made by the current invocation
  nSet,      \* cache.Set calls made by the current invocation
  lastSet,   \* history: per key, the value and time of the last completed Set
  pre,       \* history: per goroutine, what the call found when it began
  raw,       \* normalizeAddress on its own: the two strings it is applied to
  norm,      \* normalizeAddress on its own: its results, in order
  setValues, \* history: per key, the values cache.Set has been called with
  query,     \* geocodeHandler: the request's "address" query parameter
  status,    \* geocodeHandler: the statuses written to w for the request
  answer,    \* Geocode's reading of an answer on its own: the answer
  outcome    \* Geocode's reading of an answer on its own: what it returns

\* the cache, and the clock it reads
cacheVars == << items, readers, writer >>
\* a goroutine's frame in cache.Get / cache.Set
frameVars == << key, val, item, getRet >>
\* a goroutine's frame in Geocode
geoVars == << address, ctxDone, upstream, ret, nUp, nGet, nSet >>
normVars == << raw, norm >>
\* what only the specifications of one part of the program use
harnessVars == << setValues, query, status, answer, outcome >>

vars == << now, items, readers, writer, apiKeyOK, pc, op, key, val, item,
           getRet, address, ctxDone, upstream, ret, nUp, nGet, nSet, lastSet,
           pre, raw, norm, setValues, query, status, answer, outcome >>

\* item, ok := c.items[key] with ok = false
NoItem == [ok |-> FALSE, value |-> ZeroResult, expires |-> 0]
NoRet == [result |-> ZeroResult, err |-> Nil]
NoGetRet == [value |-> ZeroResult, ok |-> FALSE]
\* geocodeHandler is serving no request
NoQuery == [pending |-> FALSE, address |-> EmptyString]
\* no answer is being read
NoResponse == Response(FALSE, 0, FALSE, NoPayload)
\* history: no Set has completed for the key
NoSet == [done |-> FALSE, value |-> ZeroResult, at |-> 0]
\* history: the call found no entry that was still to expire
NoLive == [live |-> FALSE, expires |-> 0]

(* ------------------------------- cache -------------------------------- *)
\* item, ok := c.items[key]
Lookup(m, k) ==
  IF k \in DOMAIN m
    THEN [ok |-> TRUE, value |-> m[k].value, expires |-> m[k].expires]
    ELSE NoItem

\* the comparison the other way round: time.Now().Before(item.expires)
After_Before(t, expires) == t < expires

\* time.Now().After(item.expires)
After(t, expires) == t > expires

\* delete(c.items, key)
Delete(m, k) == [x \in DOMAIN m \ {k} |-> m[x]]

\* time.Now().Add(c.ttl)
Expiry(t) == t + TTL

\* a Set that leaves the entry the key has already: the first writer wins
Store_FirstWins(m, k, v, t) ==
  [x \in DOMAIN m \cup {k} |->
     IF x \in DOMAIN m THEN m[x] ELSE [value |-> v, expires |-> Expiry(t)]]

\* a Set that keeps the expiry of the entry it overwrites
Store_KeepExpiry(m, k, v, t) ==
  [x \in DOMAIN m \cup {k} |->
     IF x = k
       THEN [value |-> v,
             expires |-> IF k \in DOMAIN m THEN m[k].expires ELSE Expiry(t)]
       ELSE m[x]]

\* c.items[key] = cacheItem{value: value, expires: time.Now().Add(c.ttl)}
Store(m, k, v, t) ==
  [x \in DOMAIN m \cup {k} |->
     IF x = k THEN [value |-> v, expires |-> Expiry(t)] ELSE m[x]]

(* ------------------------------ Geocode ------------------------------- *)
\* Geocode without the check for the empty address
AddressMissing_Never(a) == FALSE

\* if address == "" { return Result{}, ErrAddressRequired }
AddressMissing(a) == a = EmptyString

\* result.Source = "cache"
FromCache(v) == [v EXCEPT !.Source = "cache"]

\* the last result taken instead of the first
Top_Last(results) == results[Len(results)]

\* top := payload.Results[0]
Top(results) == results[1]

\* the Result built without its Source
NewResult_NoSource(top) ==
  [Address |-> top.FormattedAddress, Latitude |-> top.Lat,
   Longitude |-> top.Lng, Source |-> ""]

\* result := Result{Address: top.FormattedAddress, ..., Source: "google"}
NewResult(top) ==
  [Address |-> top.FormattedAddress, Latitude |-> top.Lat,
   Longitude |-> top.Lng, Source |-> "google"]

Failure(err) == [result |-> ZeroResult, err |-> err, store |-> FALSE]

\* Geocode with the result list looked at before payload.Status
Interpret_ResultsFirst(r) ==
  IF r.transportErr THEN Failure(ErrTransport)
  ELSE IF r.StatusCode # 200 THEN Failure(ErrHTTPStatus(r.StatusCode))
  ELSE IF r.decodeErr THEN Failure(ErrDecode)
  ELSE IF Len(r.payload.Results) = 0 THEN Failure(ErrNoResults)
  ELSE IF r.payload.Status # "OK"
    THEN IF r.payload.ErrorMessage # ""
           THEN Failure(ErrAPIError(r.payload.ErrorMessage))
           ELSE Failure(ErrAPIStatus(r.payload.Status))
  ELSE [result |-> NewResult(Top(r.payload.Results)), err |-> Nil,
        store |-> TRUE]

\* Geocode without the check of payload.Status (lines 83-88)
Interpret_IgnoreStatus(r) ==
  IF r.transportErr THEN Failure(ErrTransport)
  ELSE IF r.StatusCode # 200 THEN Failure(ErrHTTPStatus(r.StatusCode))
  ELSE IF r.decodeErr THEN Failure(ErrDecode)
  ELSE IF Len(r.payload.Results) = 0 THEN Failure(ErrNoResults)
  ELSE [result |-> NewResult(Top(r.payload.Results)), err |-> Nil,
        store |-> TRUE]

\* Geocode with the empty result list memoized: the zero Result is stored
\* and returned as a result
Interpret_StoreEmpty(r) ==
  IF r.transportErr THEN Failure(ErrTransport)
  ELSE IF r.StatusCode # 200 THEN Failure(ErrHTTPStatus(r.StatusCode))
  ELSE IF r.decodeErr THEN Failure(ErrDecode)
  ELSE IF r.payload.Status # "OK"
    THEN IF r.payload.ErrorMessage # ""
           THEN Failure(ErrAPIError(r.payload.ErrorMessage))
           ELSE Failure(ErrAPIStatus(r.payload.Status))
  ELSE IF Len(r.payload.Results) = 0
    THEN [result |-> ZeroResult, err |-> Nil, store |-> TRUE]
  ELSE [result |-> NewResult(Top(r.payload.Results)), err |-> Nil,
        store |-> TRUE]

\* Geocode, lines 68-104: what the answer of client.Do turns into: the
\* values returned and whether s.cache.Set is called on the way.
Interpret(r) ==
  IF r.transportErr THEN Failure(ErrTransport)
  ELSE IF r.StatusCode # 200 THEN Failure(ErrHTTPStatus(r.StatusCode))
  ELSE IF r.decodeErr THEN Failure(ErrDecode)
  ELSE IF r.payload.Status # "OK"
    THEN IF r.payload.ErrorMessage # ""
           THEN Failure(ErrAPIError(r.payload.ErrorMessage))
           ELSE Failure(ErrAPIStatus(r.payload.Status))
  ELSE IF Len(r.payload.Results) = 0 THEN Failure(ErrNoResults)
  ELSE [result |-> NewResult(Top(r.payload.Results)), err |-> Nil,
        store |-> TRUE]

(* ------------------------------ handler ------------------------------- *)
\* geocodeHandler, lines 39-52: the status written for what Geocode returned
\* (errors.Is is equality here: client.Do wraps the context's error)
HandlerStatus(r) ==
  IF r.err = Nil THEN 200
  ELSE IF r.err = ErrNoResults THEN 404
  ELSE IF r.err = DeadlineExceeded \/ r.err = Canceled THEN 504
  ELSE 502

\* The "address" parameter of the requests served: absent, white space
\* only, and an address to be trimmed and lower-cased.
Queries == {EmptyString, <<" ">>, <<" ", "A">>}

\* geocodeHandler without the check of the address parameter
QueryMissing_Never(a) == FALSE

\* geocodeHandler, lines 30-34: if address == "" { respondError(400) }
QueryMissing(a) == a = EmptyString

(* ------------------------------- state -------------------------------- *)
InitService ==
  /\ now = 0
  /\ items = << >>
  /\ readers = {}
  /\ writer = NoProc
  /\ apiKeyOK \in BOOLEAN
  /\ pc = [p \in Procs |-> "Idle"]
  /\ op = [p \in Procs |-> "none"]
  /\ key = [p \in Procs |-> EmptyString]
  /\ val = [p \in Procs |-> ZeroResult]
  /\ item = [p \in Procs |-> NoItem]
  /\ getRet = [p \in Procs |-> NoGetRet]
  /\ address = [p \in Procs |-> EmptyString]
  /\ ctxDone = [p \in Procs |-> FALSE]
  /\ upstream = [p \in Procs |-> NoAnswer]
  /\ ret = [p \in Procs |-> NoRet]
  /\ nUp = [p \in Procs |-> 0]
  /\ nGet = [p \in Procs |-> 0]
  /\ nSet = [p \in Procs |-> 0]
  /\ lastSet = [k \in Strings(MaxLen) \cup CacheKeys |-> NoSet]
  /\ pre = [p \in Procs |-> NoLive]
  /\ setValues = [k \in CacheKeys |-> {}]
  /\ query = [p \in Procs |-> NoQuery]
  /\ status = [p \in Procs |-> << >>]
  /\ outcome = << >>

Init ==
  /\ InitService
  /\ answer = NoResponse
  /\ raw = <<EmptyString, EmptyString>>
  /\ norm = << >>

\* History: when a call for key k begins, the expiry instant of the entry
\* the last completed Set(k, _) stored, if that instant has not passed.
LiveExpiry(k) ==
  IF lastSet[k].done /\ ~After(now, Expiry(lastSet[k].at))
    THEN [live |-> TRUE, expires |-> Expiry(lastSet[k].at)]
    ELSE NoLive

\* return result, err
Return(p, result, err) ==
  /\ pc' = [pc EXCEPT ![p] = "Done"]
  /\ ret' = [ret EXCEPT ![p] = [result |-> result, err |-> err]]

\* Geocode, lines 59-68: build the request and call s.client.Do(req)
Do(p) ==
  IF ~apiKeyOK
    THEN Return(p, ZeroResult, ErrNewRequest) /\ UNCHANGED nUp
    ELSE /\ pc' = [pc EXCEPT ![p] = "Wait"]
         /\ nUp' = [nUp EXCEPT ![p] = @ + 1]
         /\ UNCHANGED ret

\* Geocode, lines 54-57: if result, ok := s.cache.Get(address); ok {...}
Hit(p, value) == Return(p, FromCache(value), Nil) /\ UNCHANGED nUp

\* The return of cache.Get and, in Geocode, the code that follows it up to
\* the next step that waits.
AfterGet(p, value, ok) ==
  /\ getRet' = [getRet EXCEPT ![p] = [value |-> value, ok |-> ok]]
  /\ item' = [item EXCEPT ![p] = NoItem]
  /\ IF op[p] = "Get"
       THEN pc' = [pc EXCEPT ![p] = "Done"] /\ UNCHANGED <<ret, nUp>>
     ELSE IF ok THEN Hit(p, value)
     ELSE Do(p)

(* ------------------------------- Geocode ------------------------------ *)
\* Geocode, lines 48-54, entered by goroutine p with rawAddress and a
\* context that is done already (done) or not: normalize, reject the empty
\* address, call s.cache.Get(address).
EnterGeocode(p, rawAddress, done) ==
  LET a == normalizeAddress(rawAddress) IN
  /\ pc[p] \in {"Idle", "Done"}
  /\ address' = [address EXCEPT ![p] = a]
  /\ ctxDone' = [ctxDone EXCEPT ![p] = done]
  /\ IF AddressMissing(a)
       THEN /\ Return(p, ZeroResult, ErrAddressRequired)
            /\ key' = [key EXCEPT ![p] = EmptyString]
            /\ nGet' = [nGet EXCEPT ![p] = 0]
            /\ pre' = [pre EXCEPT ![p] = NoLive]
       ELSE /\ pc' = [pc EXCEPT ![p] = "GetRLock"]
            /\ ret' = [ret EXCEPT ![p] = NoRet]
            /\ key' = [key EXCEPT ![p] = a]
            /\ nGet' = [nGet EXCEPT ![p] = 1]
            /\ pre' = [pre EXCEPT ![p] = LiveExpiry(a)]
  /\ op' = [op EXCEPT ![p] = "Geocode"]
  /\ val' = [val EXCEPT ![p] = ZeroResult]
  /\ getRet' = [getRet EXCEPT ![p] = NoGetRet]
  /\ upstream' = [upstream EXCEPT ![p] = NoAnswer]
  /\ nUp' = [nUp EXCEPT ![p] = 0]
  /\ nSet' = [nSet EXCEPT ![p] = 0]
  /\ UNCHANGED <<now, cacheVars, apiKeyOK, item, lastSet, normVars>>

\* Geocode is called with any raw address and context (raw addresses of
\* one normalized form begin the same call)
Geocode(p) ==
  /\ \E a \in {normalizeAddress(rawAddress) : rawAddress \in RawAddresses},
        done \in BOOLEAN : EnterGeocode(p, a, done)
  /\ UNCHANGED harnessVars

\* Geocode, lines 94-102: the result is built and s.cache.Set(address,
\* result) is called.
Fetched(p, result) ==
  /\ val' = [val EXCEPT ![p] = result]
  /\ nSet' = [nSet EXCEPT ![p] = @ + 1]
  /\ pc' = [pc EXCEPT ![p] = "SetLock"]
  /\ UNCHANGED <<ret, nUp>>

\* a failed upstream request tried again instead of returned
Failed_Retry(p, err) ==
  /\ pc' = [pc EXCEPT ![p] = "Wait"]
  /\ nUp' = [nUp EXCEPT ![p] = @ + 1]
  /\ UNCHANGED <<ret, val, nSet>>

\* Geocode, the error returns of lines 69-92
Failed(p, err) ==
  /\ Return(p, ZeroResult, err)
  /\ UNCHANGED <<val, nSet, nUp>>

\* Geocode, lines 68-102: s.client.Do(req) answers while the context is
\* live, and the answer is interpreted.
Respond(p) ==
  /\ pc[p] = "Wait"
  /\ ~ctxDone[p]
  /\ \E x \in {[answer |-> Answer(r), out |-> Interpret(r)] : r \in Responses} :
       /\ upstream' = [upstream EXCEPT ![p] = x.answer]
       /\ IF x.out.store
            THEN Fetched(p, x.out.result)
            ELSE Failed(p, x.out.err)
  /\ UNCHANGED <<now, cacheVars, apiKeyOK, op, key, item, getRet, address,
                 ctxDone, nGet, lastSet, pre, normVars, harnessVars>>

\* the context's error replaced by a generic transport error
Abort_Generic(p) ==
  /\ pc[p] = "Wait"
  /\ ctxDone[p]
  /\ Return(p, ZeroResult, ErrTransport)
  /\ UNCHANGED <<now, cacheVars, apiKeyOK, op, frameVars, address, ctxDone,
                 upstream, nUp, nGet, nSet, lastSet, pre, normVars, harnessVars>>

\* Geocode, lines 68-71: s.client.Do(req), or the reading of the body, ends
\* because the context is done, with the context's error.
Abort(p) ==
  /\ pc[p] = "Wait"
  /\ ctxDone[p]
  /\ \E e \in {DeadlineExceeded, Canceled} : Return(p, ZeroResult, e)
  /\ UNCHANGED <<now, cacheVars, apiKeyOK, op, frameVars, address, ctxDone,
                 upstream, nUp, nGet, nSet, lastSet, pre, normVars, harnessVars>>

\* The caller's context is canceled or reaches its deadline while the
\* upstream call is in progress (geocodeHandler: context.WithTimeout(
\* r.Context(), 3*time.Second)).  Geocode reads the context nowhere else, so
\* a context that ends earlier is one that is done when Geocode is called.
CtxDone(p) ==
  /\ op[p] = "Geocode"
  /\ pc[p] = "Wait"
  /\ ~ctxDone[p]
  /\ ctxDone' = [ctxDone EXCEPT ![p] = TRUE]
  /\ UNCHANGED <<now, cacheVars, apiKeyOK, pc, op, frameVars, address,
                 upstream, ret, nUp, nGet, nSet, lastSet, pre, normVars, harnessVars>>

(* -------------------------------- cache ------------------------------- *)
\* a read lock that does not wait for the writer
GetRLock_NoWait(p) ==
  /\ pc[p] = "GetRLock"
  /\ readers' = readers \cup {p}
  /\ pc' = [pc EXCEPT ![p] = "GetRead"]
  /\ UNCHANGED <<now, items, writer, apiKeyOK, op, frameVars, geoVars,
                 lastSet, pre, normVars, harnessVars>>

\* cache.Get: c.mu.RLock()
GetRLock(p) ==
  /\ pc[p] = "GetRLock"
  /\ writer = NoProc
  /\ readers' = readers \cup {p}
  /\ pc' = [pc EXCEPT ![p] = "GetRead"]
  /\ UNCHANGED <<now, items, writer, apiKeyOK, op, frameVars, geoVars,
                 lastSet, pre, normVars, harnessVars>>

\* the read without its c.mu.RUnlock()
GetRead_NoRUnlock(p) ==
  /\ pc[p] = "GetRead"
  /\ UNCHANGED readers
  /\ LET it == Lookup(items, key[p]) IN
       IF ~it.ok
         THEN AfterGet(p, ZeroResult, FALSE)
         ELSE /\ item' = [item EXCEPT ![p] = it]
              /\ pc' = [pc EXCEPT ![p] = "GetCheck"]
              /\ UNCHANGED <<getRet, ret, nUp>>
  /\ UNCHANGED <<now, items, writer, apiKeyOK, op, key, val, address,
                 ctxDone, upstream, nGet, nSet, lastSet, pre, normVars,
                 harnessVars>>

\* cache.Get: item, ok := c.items[key]; c.mu.RUnlock(); if !ok { return }
GetRead(p) ==
  /\ pc[p] = "GetRead"
  /\ readers' = readers \ {p}
  /\ LET it == Lookup(items, key[p]) IN
       IF ~it.ok
         THEN AfterGet(p, ZeroResult, FALSE)
         ELSE /\ item' = [item EXCEPT ![p] = it]
              /\ pc' = [pc EXCEPT ![p] = "GetCheck"]
              /\ UNCHANGED <<getRet, ret, nUp>>
  /\ UNCHANGED <<now, items, writer, apiKeyOK, op, key, val, address,
                 ctxDone, upstream, nGet, nSet, lastSet, pre, normVars, harnessVars>>

\* cache.Get: if time.Now().After(item.expires) {...}; return item.value, true
GetCheck(p) ==
  /\ pc[p] = "GetCheck"
  /\ IF After(now, item[p].expires)
       THEN /\ pc' = [pc EXCEPT ![p] = "GetLock"]
            /\ item' = [item EXCEPT ![p] = NoItem]
            /\ UNCHANGED <<getRet, ret, nUp>>
       ELSE AfterGet(p, item[p].value, TRUE)
  /\ UNCHANGED <<now, cacheVars, apiKeyOK, op, key, val, address, ctxDone,
                 upstream, nGet, nSet, lastSet, pre, normVars, harnessVars>>

\* cache.Get: c.mu.Lock()
GetLock(p) ==
  /\ pc[p] = "GetLock"
  /\ writer = NoProc
  /\ readers = {}
  /\ writer' = p
  /\ pc' = [pc EXCEPT ![p] = "GetDelete"]
  /\ UNCHANGED <<now, items, readers, apiKeyOK, op, frameVars, geoVars,
                 lastSet, pre, normVars, harnessVars>>

\* the delete without its c.mu.Unlock()
GetDelete_NoUnlock(p) ==
  /\ pc[p] = "GetDelete"
  /\ items' = Delete(items, key[p])
  /\ AfterGet(p, ZeroResult, FALSE)
  /\ UNCHANGED <<now, readers, writer, apiKeyOK, op, key, val, address,
                 ctxDone, upstream, nGet, nSet, lastSet, pre, normVars,
                 harnessVars>>

\* cache.Get: delete(c.items, key); c.mu.Unlock(); return Result{}, false
GetDelete(p) ==
  /\ pc[p] = "GetDelete"
  /\ items' = Delete(items, key[p])
  /\ writer' = NoProc
  /\ AfterGet(p, ZeroResult, FALSE)
  /\ UNCHANGED <<now, readers, apiKeyOK, op, key, val, address, ctxDone,
                 upstream, nGet, nSet, lastSet, pre, normVars, harnessVars>>

\* cache.Set: c.mu.Lock()
SetLock(p) ==
  /\ pc[p] = "SetLock"
  /\ writer = NoProc
  /\ readers = {}
  /\ writer' = p
  /\ pc' = [pc EXCEPT ![p] = "SetWrite"]
  /\ UNCHANGED <<now, items, readers, apiKeyOK, op, frameVars, geoVars,
                 lastSet, pre, normVars, harnessVars>>

\* cache.Set: c.items[key] = cacheItem{...}; c.mu.Unlock(); and, in Geocode,
\* line 104: return result, nil
SetWrite(p) ==
  /\ pc[p] = "SetWrite"
  /\ items' = Store(items, key[p], val[p], now)
  /\ writer' = NoProc
  /\ lastSet' = [lastSet EXCEPT
                   ![key[p]] = [done |-> TRUE, value |-> val[p], at |-> now]]
  /\ IF op[p] = "Set"
       THEN pc' = [pc EXCEPT ![p] = "Done"] /\ UNCHANGED ret
       ELSE Return(p, val[p], Nil)
  /\ UNCHANGED <<now, readers, apiKeyOK, op, frameVars, address, ctxDone,
                 upstream, nUp, nGet, nSet, pre, normVars, harnessVars>>

\* time passes
Tick ==
  /\ now < MaxTime
  /\ now' = now + 1
  /\ UNCHANGED <<cacheVars, apiKeyOK, pc, op, frameVars, geoVars, lastSet,
                 pre, normVars, harnessVars>>

(* --------------------------- the service ------------------------------ *)
\* Requests arrive at any time; each runs Geocode in a goroutine of its own.
Next ==
  \/ \E p \in Procs : Geocode(p)
  \/ \E p \in Procs : GetRLock(p)
  \/ \E p \in Procs : GetRead(p)
  \/ \E p \in Procs : GetCheck(p)
  \/ \E p \in Procs : GetLock(p)
  \/ \E p \in Procs : GetDelete(p)
  \/ \E p \in Procs : Respond(p)
  \/ \E p \in Procs : Abort(p)
  \/ \E p \in Procs : CtxDone(p)
  \/ \E p \in Procs : SetLock(p)
  \/ \E p \in Procs : SetWrite(p)
  \/ Tick

Spec == Init /\ [][Next]_vars

\* The service with what makes its calls progress: a goroutine that can take
\* a step of its own takes it; the upstream call answers or is ended by the
\* context; a goroutine that waits for the lock gets it if it is free again
\* and again (sync.RWMutex hands the lock to waiters).  New requests and the
\* passing of time are not forced.
\* (A goroutine is at one place at a time, so fairness of the disjunction
\* of its steps is fairness of each.)
Proceed(p) ==
  \/ GetRead(p) \/ GetCheck(p) \/ GetDelete(p) \/ SetWrite(p)
  \/ Respond(p) \/ Abort(p)
Acquire(p) == GetRLock(p) \/ GetLock(p) \/ SetLock(p)
Fairness ==
  \A p \in Procs : WF_vars(Proceed(p)) /\ SF_vars(Acquire(p))

SpecFair == Spec /\ Fairness

(* ------------------------ requests to /geocode ------------------------ *)
\* geocodeHandler, lines 30-39, serving a GET request in goroutine p: the
\* address parameter is trimmed; if nothing is left 400 is written, and
\* otherwise service.Geocode(ctx, address) is called.  The context is that of
\* the request with a timeout, done already or not when Geocode is entered.
Serve(p) ==
  /\ query[p].pending => status[p] # << >>
  /\ \E q \in Queries, done \in BOOLEAN :
       /\ query' = [query EXCEPT ![p] = [pending |-> TRUE, address |-> q]]
       /\ IF QueryMissing(TrimSpace(q))
            THEN /\ pc[p] \in {"Idle", "Done"}
                 /\ pc' = [pc EXCEPT ![p] = "Done"]
                 /\ op' = [op EXCEPT ![p] = "none"]
                 /\ status' = [status EXCEPT ![p] = <<400>>]
                 /\ UNCHANGED <<now, cacheVars, apiKeyOK, frameVars, geoVars,
                                lastSet, pre, normVars>>
            ELSE /\ EnterGeocode(p, TrimSpace(q), done)
                 /\ status' = [status EXCEPT ![p] = << >>]
  /\ UNCHANGED <<setValues, answer, outcome>>

\* geocodeHandler, lines 40-52: what Geocode returned is written to w
WriteResponse(p) ==
  /\ query[p].pending
  /\ op[p] = "Geocode" /\ pc[p] = "Done"
  /\ status[p] = << >>
  /\ status' = [status EXCEPT ![p] = Append(@, HandlerStatus(ret[p]))]
  /\ UNCHANGED <<now, cacheVars, apiKeyOK, pc, op, frameVars, geoVars,
                 lastSet, pre, normVars, setValues, query, answer, outcome>>

NextServer ==
  \/ \E p \in Procs : Serve(p)
  \/ \E p \in Procs : WriteResponse(p)
  \/ \E p \in Procs : GetRLock(p)
  \/ \E p \in Procs : GetRead(p)
  \/ \E p \in Procs : GetCheck(p)
  \/ \E p \in Procs : GetLock(p)
  \/ \E p \in Procs : GetDelete(p)
  \/ \E p \in Procs : Respond(p)
  \/ \E p \in Procs : Abort(p)
  \/ \E p \in Procs : CtxDone(p)
  \/ \E p \in Procs : SetLock(p)
  \/ \E p \in Procs : SetWrite(p)
  \/ Tick

SpecServer == Init /\ [][NextServer]_vars

(* ------------------------ the cache on its own ------------------------ *)
\* what is stored directly: results that differ in every field
CacheValues ==
  { [Address |-> "1 Infinite Loop", Latitude |-> 3733, Longitude |-> -12203,
     Source |-> "google"],
    [Address |-> "Main St", Latitude |-> 4070, Longitude |-> -7400,
     Source |-> "cache"] }

\* goroutine p enters c.Get(k); found is the history kept of what the call
\* found when it began
EnterGet(p, k, found) ==
  /\ pc[p] \in {"Idle", "Done"}
  /\ key' = [key EXCEPT ![p] = k]
  /\ pre' = [pre EXCEPT ![p] = found]
  /\ op' = [op EXCEPT ![p] = "Get"]
  /\ pc' = [pc EXCEPT ![p] = "GetRLock"]
  /\ val' = [val EXCEPT ![p] = ZeroResult]
  /\ getRet' = [getRet EXCEPT ![p] = NoGetRet]
  /\ UNCHANGED <<now, cacheVars, apiKeyOK, item, geoVars, lastSet, normVars,
                 harnessVars>>

\* a goroutine calls c.Get(k)
CallGet(p) == \E k \in CacheKeys : EnterGet(p, k, LiveExpiry(k))

\* a goroutine calls c.Set(k, v)
CallSet(p) ==
  /\ pc[p] \in {"Idle", "Done"}
  /\ \E k \in CacheKeys, v \in CacheValues :
       /\ key' = [key EXCEPT ![p] = k]
       /\ val' = [val EXCEPT ![p] = v]
  /\ op' = [op EXCEPT ![p] = "Set"]
  /\ pc' = [pc EXCEPT ![p] = "SetLock"]
  /\ getRet' = [getRet EXCEPT ![p] = NoGetRet]
  /\ pre' = [pre EXCEPT ![p] = NoLive]
  /\ UNCHANGED <<now, cacheVars, apiKeyOK, item, geoVars, lastSet, normVars, harnessVars>>

NextCache ==
  \/ \E p \in Procs : CallGet(p)
  \/ \E p \in Procs : CallSet(p)
  \/ \E p \in Procs : GetRLock(p)
  \/ \E p \in Procs : GetRead(p)
  \/ \E p \in Procs : GetCheck(p)
  \/ \E p \in Procs : GetLock(p)
  \/ \E p \in Procs : GetDelete(p)
  \/ \E p \in Procs : SetLock(p)
  \/ \E p \in Procs : SetWrite(p)
  \/ Tick

\* Goroutines call Get and Set directly, with any key and value.
InitCache == Init /\ apiKeyOK = TRUE
SpecCache == InitCache /\ [][NextCache]_vars

(* ------------- the cache, entries copied a part at a time ------------- *)
\* A cacheItem is several machine words: the map assignment of cache.Set and
\* the map read of cache.Get each copy it in parts.  Here each copies the
\* entry in two parts (Address and Latitude, then Longitude, Source and
\* expires), both inside the critical section the code puts them in, so
\* that what keeps a reader from seeing half of a write is the lock alone.

\* the first part of value, over the entry k has, if any
FirstPart(m, k, v) ==
  LET old == IF k \in DOMAIN m THEN m[k]
             ELSE [value |-> ZeroResult, expires |-> 0]
  IN [value |-> [old.value EXCEPT !.Address = v.Address,
                                  !.Latitude = v.Latitude],
      expires |-> old.expires]

\* a goroutine calls c.Get(k); no history of expiry is kept
CallGetParts(p) == \E k \in CacheKeys : EnterGet(p, k, NoLive)

\* a goroutine calls c.Set(k, v); the call is recorded
CallSetRecorded(p) ==
  /\ pc[p] \in {"Idle", "Done"}
  /\ \E k \in CacheKeys, v \in CacheValues :
       /\ key' = [key EXCEPT ![p] = k]
       /\ val' = [val EXCEPT ![p] = v]
       /\ setValues' = [setValues EXCEPT ![k] = @ \cup {v}]
  /\ op' = [op EXCEPT ![p] = "Set"]
  /\ pc' = [pc EXCEPT ![p] = "SetLock"]
  /\ getRet' = [getRet EXCEPT ![p] = NoGetRet]
  /\ pre' = [pre EXCEPT ![p] = NoLive]
  /\ UNCHANGED <<now, cacheVars, apiKeyOK, item, geoVars, lastSet, normVars,
                 query, status, answer, outcome>>

\* cache.Set: c.items[key] = cacheItem{...}, the first part
SetWriteFirst(p) ==
  /\ pc[p] = "SetWrite"
  /\ items' = [x \in DOMAIN items \cup {key[p]} |->
                 IF x = key[p] THEN FirstPart(items, key[p], val[p])
                 ELSE items[x]]
  /\ pc' = [pc EXCEPT ![p] = "SetWriteRest"]
  /\ UNCHANGED <<now, readers, writer, apiKeyOK, op, frameVars, geoVars,
                 lastSet, pre, normVars, harnessVars>>

\* cache.Set: c.items[key] = cacheItem{...}, the rest; c.mu.Unlock()
SetWriteRest(p) ==
  /\ pc[p] = "SetWriteRest"
  /\ items' = Store(items, key[p], val[p], now)
  /\ writer' = NoProc
  /\ lastSet' = [lastSet EXCEPT
                   ![key[p]] = [done |-> TRUE, value |-> val[p], at |-> now]]
  /\ pc' = [pc EXCEPT ![p] = "Done"]
  /\ UNCHANGED <<now, readers, apiKeyOK, op, frameVars, geoVars, pre,
                 normVars, harnessVars>>

\* cache.Get: item, ok := c.items[key], the first part; if !ok { return }
GetReadFirst(p) ==
  /\ pc[p] = "GetRead"
  /\ LET it == Lookup(items, key[p]) IN
       IF ~it.ok
         THEN /\ readers' = readers \ {p}
              /\ AfterGet(p, ZeroResult, FALSE)
         ELSE /\ item' = [item EXCEPT ![p] =
                   [ok |-> TRUE,
                    value |-> [ZeroResult EXCEPT
                                 !.Address = it.value.Address,
                                 !.Latitude = it.value.Latitude],
                    expires |-> 0]]
              /\ pc' = [pc EXCEPT ![p] = "GetReadRest"]
              /\ UNCHANGED <<readers, getRet, ret, nUp>>
  /\ UNCHANGED <<now, items, writer, apiKeyOK, op, key, val, address,
                 ctxDone, upstream, nGet, nSet, lastSet, pre, normVars,
                 harnessVars>>

\* cache.Get: item, ok := c.items[key], the rest; c.mu.RUnlock()
GetReadRest(p) ==
  /\ pc[p] = "GetReadRest"
  /\ LET it == Lookup(items, key[p]) IN
       item' = [item EXCEPT ![p] =
                  [ok |-> TRUE,
                   value |-> [item[p].value EXCEPT
                                !.Longitude = it.value.Longitude,
                                !.Source = it.value.Source],
                   expires |-> it.expires]]
  /\ readers' = readers \ {p}
  /\ pc' = [pc EXCEPT ![p] = "GetCheck"]
  /\ UNCHANGED <<now, items, writer, apiKeyOK, op, key, val, getRet, geoVars,
                 lastSet, pre, normVars, harnessVars>>

NextParts ==
  \/ \E p \in Procs : CallGetParts(p)
  \/ \E p \in Procs : CallSetRecorded(p)
  \/ \E p \in Procs : GetRLock(p)
  \/ \E p \in Procs : GetReadFirst(p)
  \/ \E p \in Procs : GetReadRest(p)
  \/ \E p \in Procs : GetCheck(p)
  \/ \E p \in Procs : GetLock(p)
  \/ \E p \in Procs : GetDelete(p)
  \/ \E p \in Procs : SetLock(p)
  \/ \E p \in Procs : SetWriteFirst(p)
  \/ \E p \in Procs : SetWriteRest(p)
  \/ Tick

SpecParts == InitCache /\ [][NextParts]_vars

(* ------------------- the reading of an answer alone ------------------- *)
\* Geocode, lines 68-104, applied to each answer the upstream call can end
\* with, and geocodeHandler's status for what Geocode then returns.
ReadAnswer ==
  /\ outcome = << >>
  /\ outcome' = <<Interpret(answer)>>
  /\ UNCHANGED <<now, cacheVars, apiKeyOK, pc, op, frameVars, geoVars,
                 lastSet, pre, normVars, setValues, query, status, answer>>

WriteStatus ==
  /\ Len(outcome) = 1
  /\ outcome' = Append(outcome, HandlerStatus(outcome[1]))
  /\ UNCHANGED <<now, cacheVars, apiKeyOK, pc, op, frameVars, geoVars,
                 lastSet, pre, normVars, setValues, query, status, answer>>

NextAnswer == ReadAnswer \/ WriteStatus

InitAnswer ==
  /\ InitService
  /\ apiKeyOK = TRUE
  /\ raw = <<EmptyString, EmptyString>>
  /\ norm = << >>
  /\ answer \in Responses

SpecAnswer == InitAnswer /\ [][NextAnswer]_vars

(* --------------------- normalizeAddress on its own -------------------- *)
\* normalizeAddress is applied to each of two strings, then to its results.
Normalize ==
  /\ norm = << >>
  /\ norm' = <<normalizeAddress(raw[1]), normalizeAddress(raw[2])>>
  /\ UNCHANGED <<now, cacheVars, apiKeyOK, pc, op, frameVars, geoVars,
                 lastSet, pre, raw, harnessVars>>

NormalizeAgain ==
  /\ Len(norm) = 2
  /\ norm' = norm \o <<normalizeAddress(norm[1]), normalizeAddress(norm[2])>>
  /\ UNCHANGED <<now, cacheVars, apiKeyOK, pc, op, frameVars, geoVars,
                 lastSet, pre, raw, harnessVars>>

NextNorm == Normalize \/ NormalizeAgain

InitNorm ==
  /\ InitService
  /\ answer = NoResponse
  /\ apiKeyOK = TRUE
  /\ raw \in Strings(MaxRawLen) \X Strings(MaxRawLen)
  /\ norm = << >>

SpecNorm == InitNorm /\ [][NextNorm]_vars

(* ============================== claims =============================== *)

\* what belongs to goroutine p alone: it changes only in a step of p
Frame(p) ==
  << pc[p], op[p], key[p], val[p], item[p], getRet[p], address[p],
     ctxDone[p], upstream[p], ret[p], nUp[p], nGet[p], nSet[p], pre[p] >>
\* goroutine p is inside cache.Get
InGet(p) == pc[p] \in {"GetRLock", "GetRead", "GetCheck", "GetLock", "GetDelete"}
\* the entry of key k is created or changed by the step
Written(k) ==
  /\ k \in DOMAIN items'
  /\ k \in DOMAIN items => items'[k] # items[k]
\* the three fields of a Result that come from the provider
Fields(v) == << v.Address, v.Latitude, v.Longitude >>

\* C1: once a Geocode call for an address has returned successfully and the
\* entry it stored has not expired, a Geocode call for the same normalized
\* address that begins later returns the stored address, latitude and
\* longitude with source "cache" and issues no upstream request.  (pre[p] is
\* the expiry of the entry of the last completed Set when p's call began.)
C1_CacheHitSkip ==
  \A p \in Procs :
    /\ op[p] = "Geocode" /\ pc[p] = "Done"
    /\ pre[p].live /\ ~After(now, pre[p].expires)
    => /\ ret[p].err = Nil
       /\ ret[p].result.Source = "cache"
       /\ Fields(ret[p].result) = Fields(getRet[p].value)
       /\ nUp[p] = 0

C3_EmptyAddressRejected ==
  /\ [](\A p \in Procs :
          op[p] = "Geocode" /\ address[p] = EmptyString =>
            /\ pc[p] = "Done"
            /\ ret[p] = [result |-> ZeroResult, err |-> ErrAddressRequired]
            /\ nGet[p] = 0 /\ nUp[p] = 0 /\ nSet[p] = 0)
  /\ [][\A p \in Procs :
          /\ Frame(p)' # Frame(p)
          /\ op'[p] = "Geocode" /\ address'[p] = EmptyString
          => /\ pc[p] \in {"Idle", "Done"} /\ pc'[p] = "Done"
             /\ UNCHANGED <<items, readers, writer, lastSet>>]_vars

\* an empty address rejected while the cache holds an entry and the other
\* goroutine is inside a call
C3_Witness ==
  \E p, q \in Procs :
    /\ op[p] = "Geocode" /\ pc[p] = "Done" /\ address[p] = EmptyString
    /\ ret[p].err = ErrAddressRequired
    /\ DOMAIN items # {}
    /\ pc[q] \notin {"Idle", "Done"}

\* C4: an invocation of Geocode issues at most one upstream request, whatever
\* the answer: a request is issued only by an invocation whose cache.Get has
\* just missed and that has issued none, and whatever ends the request other
\* than a usable answer is returned as an error at once.
C4_NoRetry ==
  /\ [](\A p \in Procs :
          /\ nUp[p] <= 1
          /\ nUp[p] = 1 =>
               /\ op[p] = "Geocode" /\ nGet[p] = 1 /\ ~getRet[p].ok
               /\ pc[p] \in {"Wait", "SetLock", "SetWrite", "Done"}
          /\ pc[p] = "Done" /\ upstream[p] # NoAnswer => nUp[p] = 1)
  /\ [][\A p \in Procs :
          /\ nUp'[p] # nUp[p] =>
               \/ pc[p] \in {"Idle", "Done"} /\ nUp'[p] = 0
               \/ /\ pc[p] \in {"GetRead", "GetDelete"} /\ pc'[p] = "Wait"
                  /\ ~getRet'[p].ok
                  /\ nUp[p] = 0 /\ nUp'[p] = 1
          /\ pc[p] = "Wait" /\ pc'[p] # "Wait"
               /\ upstream'[p].kind # "OK, results" =>
               /\ pc'[p] = "Done" /\ ret'[p].err # Nil
               /\ nUp'[p] = 1]_vars

\* both goroutines have returned after one request each: one with the
\* transport's error, the other with a result
C4_Witness ==
  \E p, q \in Procs :
    /\ pc[p] = "Done" /\ upstream[p].kind = "transport error"
    /\ ret[p].err = ErrTransport /\ nUp[p] = 1
    /\ pc[q] = "Done" /\ upstream[q].kind = "OK, results"
    /\ ret[q].err = Nil /\ nUp[q] = 1

\* C5: when the provider answers status "OK" with an empty result list,
\* Geocode returns the zero Result and ErrNoResults after its one request,
\* calls no cache.Set and leaves the cache as it was, so nothing is memoized
\* and each such call issues a request of its own.
C5_ZeroResultsNotMemoized ==
  /\ [](\A p \in Procs :
          upstream[p].kind = "OK, no results" =>
            /\ pc[p] = "Done"
            /\ ret[p] = [result |-> ZeroResult, err |-> ErrNoResults]
            /\ nUp[p] = 1 /\ nSet[p] = 0)
  /\ [][\A p \in Procs :
          pc[p] = "Wait" /\ upstream'[p].kind = "OK, no results" =>
            UNCHANGED <<items, lastSet>>]_vars

\* two calls for one address have each been answered "OK" with no results,
\* each after a request of its own, and the cache holds nothing
C5_Witness ==
  \E p, q \in Procs :
    /\ p # q /\ address[p] = address[q]
    /\ pc[p] = "Done" /\ pc[q] = "Done"
    /\ upstream[p].kind = "OK, no results" /\ ret[p].err = ErrNoResults
    /\ upstream[q].kind = "OK, no results" /\ ret[q].err = ErrNoResults
    /\ nUp[p] = 1 /\ nUp[q] = 1
    /\ items = << >>

\* C6: an invocation of Geocode that returns an error has called no
\* cache.Set; cache.Set is called at most once per invocation, only after an
\* answer with status "OK" and results, with the normalized address as key,
\* and the invocation then returns the stored Result with a nil error; no
\* entry is created or changed by any other step.
C6_FailuresNeverCached ==
  /\ [](\A p \in Procs :
          /\ nSet[p] <= 1
          /\ pc[p] = "Done" /\ ret[p].err # Nil =>
               nSet[p] = 0 /\ ret[p].result = ZeroResult
          /\ nSet[p] = 1 =>
               /\ upstream[p].kind = "OK, results"
               /\ pc[p] \in {"SetLock", "SetWrite", "Done"}
               /\ key[p] = address[p] /\ address[p] # EmptyString
               /\ normalizeAddress(address[p]) = address[p]
               /\ pc[p] = "Done" => ret[p] = [result |-> val[p], err |-> Nil])
  /\ [][\A k \in Keys :
          Written(k) =>
            \E p \in Procs :
              /\ pc[p] = "SetWrite" /\ key[p] = k /\ nSet[p] = 1
              /\ pc'[p] = "Done" /\ ret'[p].err = Nil]_vars

\* a call answered with a status other than "OK", results included, has
\* returned an error and stored nothing, while the entry another call stored
\* is in the cache
C6_Witness ==
  \E p, q \in Procs :
    /\ pc[p] = "Done" /\ upstream[p].kind = "not OK, results"
    /\ ret[p].err # Nil /\ nSet[p] = 0
    /\ pc[q] = "Done" /\ ret[q].err = Nil /\ nSet[q] = 1
    /\ address[q] \in DOMAIN items

\* C7: when the caller's context is canceled or reaches its deadline while
\* the upstream request of a Geocode that missed the cache is in progress,
\* Geocode returns the zero Result and the context's error (DeadlineExceeded
\* or Canceled, never a generic upstream error) after that one request,
\* without calling cache.Set or changing the cache, and geocodeHandler
\* answers 504.
C7_TimeoutPropagation ==
  /\ [](\A p \in Procs :
          pc[p] = "Done" /\ ret[p].err \in {DeadlineExceeded, Canceled} =>
            /\ ret[p].result = ZeroResult
            /\ ctxDone[p] /\ upstream[p] = NoAnswer
            /\ nUp[p] = 1 /\ nSet[p] = 0
            /\ HandlerStatus(ret[p]) = 504)
  /\ [][\A p \in Procs :
          pc[p] = "Wait" /\ ctxDone[p] /\ pc'[p] # "Wait" =>
            /\ pc'[p] = "Done"
            /\ ret'[p].result = ZeroResult
            /\ ret'[p].err \in {DeadlineExceeded, Canceled}
            /\ HandlerStatus(ret'[p]) = 504
            /\ nUp'[p] = 1 /\ nSet'[p] = 0
            /\ UNCHANGED <<items, lastSet>>]_vars

\* a call that missed the cache has returned DeadlineExceeded, another
\* Canceled, each after its one request
C7_Witness ==
  \E p, q \in Procs :
    /\ pc[p] = "Done" /\ ret[p].err = DeadlineExceeded
    /\ pc[q] = "Done" /\ ret[q].err = Canceled
    /\ nGet[p] = 1 /\ nUp[p] = 1 /\ nUp[q] = 1
    /\ HandlerStatus(ret[p]) = 504 /\ HandlerStatus(ret[q]) = 504

\* the step is the return of goroutine p's cache.Get
GetReturns(p) == InGet(p) /\ pc'[p] = "Done"

\* C8: a Get(k) that returns once the TTL has elapsed since the most recent
\* completed Set(k, _) returns (zero value, false) and leaves no entry for k,
\* so every later Get(k) returns false as well until another Set(k, _); and
\* no Get returns found = true for an entry past its expiry instant, which
\* is the time of its insertion plus the TTL.
C8_ExpiryWithoutResurrection ==
  /\ [](\A k \in DOMAIN items :
          lastSet[k].done /\ items[k].expires = lastSet[k].at + TTL)
  /\ [][\A p \in Procs :
          GetReturns(p) =>
            /\ getRet'[p].ok =>
                 /\ pc[p] = "GetCheck" /\ item[p].ok
                 /\ now <= item[p].expires
                 /\ now <= lastSet[key[p]].at + TTL
                 /\ getRet'[p].value = item[p].value
            /\ lastSet[key[p]].done /\ now > lastSet[key[p]].at + TTL =>
                 /\ getRet'[p] = [value |-> ZeroResult, ok |-> FALSE]
                 /\ key[p] \notin DOMAIN items']_vars

\* after a Set(k, _) and more than the TTL, one Get(k) has removed the entry
\* and returned false, and so has a later Get(k) by the other goroutine
C8_Witness ==
  \E p, q \in Procs : \E k \in CacheKeys :
    /\ p # q
    /\ op[p] = "Get" /\ pc[p] = "Done" /\ key[p] = k /\ ~getRet[p].ok
    /\ op[q] = "Get" /\ pc[q] = "Done" /\ key[q] = k /\ ~getRet[q].ok
    /\ lastSet[k].done /\ now > lastSet[k].at + TTL
    /\ k \notin DOMAIN items
    /\ \E j \in DOMAIN items : now <= items[j].expires

\* C9: Set(k, v) stores for k exactly v, every field of it, with expiry the
\* time of that Set plus the TTL, whatever k held before (last writer wins,
\* expiry restarted), and changes the entry of no other key; a Get(k) that
\* reads the entry before its expiry returns (v, true) with v as stored,
\* source included.
C9_RoundTripAndOverwrite ==
  /\ [](\A k \in DOMAIN items :
          items[k] = [value |-> lastSet[k].value,
                      expires |-> lastSet[k].at + TTL])
  /\ [][\A p \in Procs :
          /\ pc[p] = "SetWrite" /\ pc'[p] = "Done" =>
               /\ DOMAIN items' = DOMAIN items \cup {key[p]}
               /\ items'[key[p]] = [value |-> val[p], expires |-> now + TTL]
               /\ \A j \in DOMAIN items \ {key[p]} : items'[j] = items[j]
          /\ pc[p] = "GetRead" /\ pc'[p] # "GetRead" =>
               IF key[p] \in DOMAIN items
                 THEN /\ pc'[p] = "GetCheck"
                      /\ item'[p].value = lastSet[key[p]].value
                      /\ item'[p].expires = lastSet[key[p]].at + TTL
                 ELSE pc'[p] = "Done" /\ ~getRet'[p].ok
          /\ pc[p] = "GetCheck" /\ pc'[p] # "GetCheck"
               /\ now <= item[p].expires =>
               /\ pc'[p] = "Done"
               /\ getRet'[p] = [value |-> item[p].value, ok |-> TRUE]
          /\ InGet(p) /\ Frame(p)' # Frame(p) /\ pc[p] # "GetDelete" =>
               items' = items]_vars

\* k, set before, has been set again later with another value, and a Get(k)
\* has returned that value, source "cache" as it was given, while another
\* key keeps the entry, of an earlier expiry, it had
C9_Witness ==
  \E p, q \in Procs : \E k, j \in DOMAIN items :
    /\ p # q /\ k # j
    /\ op[p] = "Set" /\ pc[p] = "Done" /\ key[p] = k
    /\ op[q] = "Get" /\ pc[q] = "Done" /\ key[q] = k
    /\ getRet[q] = [value |-> val[p], ok |-> TRUE]
    /\ val[p].Source = "cache"
    /\ items[k] = [value |-> val[p], expires |-> now + TTL]
    /\ now > 0
    /\ items[j].value # items[k].value
    /\ items[j].expires < items[k].expires

\* C11: whatever the interleaving of Gets and Sets, a Get that returns
\* found = true returns, all fields together, a value that some one Set was
\* called with for that same key, before the Get returned: never parts of
\* two Sets' values, never a value set under another key only.
C11_NoTornReads ==
  \A p \in Procs :
    /\ pc[p] = "GetCheck" => item[p].value \in setValues[key[p]]
    /\ op[p] = "Get" /\ pc[p] = "Done" /\ getRet[p].ok =>
         getRet[p].value \in setValues[key[p]]

\* a Get has returned the old value of a key whose Set of another value is
\* half written by the other goroutine, while the other key has an entry too
C11_Witness ==
  \E p, q \in Procs : \E k, j \in CacheKeys :
    /\ p # q /\ k # j
    /\ op[p] = "Get" /\ pc[p] = "Done" /\ key[p] = k /\ getRet[p].ok
    /\ op[q] = "Set" /\ pc[q] = "SetWriteRest" /\ key[q] = k
    /\ val[q] # getRet[p].value
    /\ items[k].value \notin CacheValues
    /\ j \in DOMAIN items

\* C13: an entry is removed only by a Get that has seen that very entry
\* expired: the entry a Get deletes is past its expiry, so that the entry of
\* a completed Set(k, v) is found by every Get(k) that begins after it and
\* returns before its expiry.  (pre[p] is the expiry of the entry of the last
\* completed Set when p's Get began.)
C13_OnlyExpiredEvicted ==
  /\ [][\A p \in Procs :
          pc[p] = "GetDelete" /\ pc'[p] # "GetDelete"
            /\ key[p] \in DOMAIN items
          => After(now, items[key[p]].expires)]_vars
  /\ [](\A p \in Procs :
          /\ op[p] = "Get" /\ pc[p] = "Done"
          /\ pre[p].live /\ ~After(now, pre[p].expires)
          => getRet[p].ok)

\* C14: nothing keeps two invocations of Geocode for one address from each
\* having an upstream request in flight: while one waits for its answer,
\* another that misses the cache issues its own request; each then calls
\* cache.Set, and each Set leaves for the key exactly the value it wrote, so
\* that the entry is always the value of the Set executed last.
C14_NoSingleFlight ==
  /\ [](\A p, q \in Procs :
          /\ p # q /\ apiKeyOK
          /\ pc[p] = "Wait" /\ pc[q] = "GetRead"
          /\ key[q] = key[p] /\ key[q] \notin DOMAIN items
          => ENABLED (GetRead(q) /\ pc'[q] = "Wait"))
  /\ [](\A p \in Procs :
          pc[p] = "Wait" /\ ~ctxDone[p] => ENABLED Respond(p))
  /\ [](\A p \in Procs :
          upstream[p].kind = "OK, results" => nSet[p] = 1)
  /\ [](\A k \in DOMAIN items : items[k].value = lastSet[k].value)
  /\ [][\A p \in Procs :
          pc[p] = "SetWrite" /\ pc'[p] = "Done" =>
            /\ items'[key[p]].value = val[p]
            /\ lastSet'[key[p]].value = val[p]]_vars

\* with no time passed, both goroutines missed the cache for one address,
\* each made its own request and got another first result, both called
\* Set, and the entry holds what the one whose Set ran last returned
C14_Witness ==
  \E p, q \in Procs :
    /\ p # q /\ now = 0
    /\ address[p] = address[q]
    /\ pc[p] = "Done" /\ pc[q] = "Done"
    /\ nUp[p] = 1 /\ nUp[q] = 1 /\ nSet[p] = 1 /\ nSet[q] = 1
    /\ ~pre[p].live /\ ~pre[q].live
    /\ ret[p].err = Nil /\ ret[q].err = Nil
    /\ ret[p].result # ret[q].result
    /\ address[p] \in DOMAIN items
    /\ items[address[p]].value = ret[q].result

\* the errors Geocode makes of an upstream failure: none of its two named
\* errors, of the context's, or nil
UpstreamError(e) ==
  e \notin {Nil, ErrAddressRequired, ErrNoResults, DeadlineExceeded, Canceled}

\* C15: what Geocode returns for an answer is decided by the first of these
\* that applies and by nothing after it: a transport error, an HTTP status
\* other than 200, an undecodable body, a provider status other than "OK"
\* (all four an upstream error, the last with error_message as its text if
\* there is one and the status if not, whether or not results came with
\* it), an empty result list (ErrNoResults), and else the first result with
\* a nil error.  ErrNoResults is returned only with status "OK".
C15_InterpretationOrder ==
  Len(outcome) >= 1 =>
    LET o == outcome[1]
        pl == answer.payload
        readable == ~answer.transportErr /\ answer.StatusCode = 200
                      /\ ~answer.decodeErr
    IN /\ answer.transportErr => UpstreamError(o.err)
       /\ ~answer.transportErr /\ answer.StatusCode # 200 =>
            UpstreamError(o.err)
              /\ o.err.detail = ToString(answer.StatusCode)
       /\ ~answer.transportErr /\ answer.StatusCode = 200
            /\ answer.decodeErr => UpstreamError(o.err)
       /\ readable /\ pl.Status # "OK" =>
            /\ UpstreamError(o.err)
            /\ o.err.detail = IF pl.ErrorMessage # "" THEN pl.ErrorMessage
                              ELSE pl.Status
       /\ readable /\ pl.Status = "OK" /\ pl.Results = << >> =>
            o.err = ErrNoResults
       /\ readable /\ pl.Status = "OK" /\ pl.Results # << >> =>
            /\ o.err = Nil /\ o.store
            /\ o.result.Address = pl.Results[1].FormattedAddress
       /\ o.err = ErrNoResults => readable /\ pl.Status = "OK"
       /\ o.err # Nil => o.result = ZeroResult /\ ~o.store
       /\ Len(outcome) = 2 =>
            outcome[2] = IF o.err = Nil THEN 200
                         ELSE IF o.err = ErrNoResults THEN 404 ELSE 502

\* an answer of HTTP 200 with a status other than "OK", no error_message
\* and an empty result list has been read as an upstream error, status 502
C15_Witness ==
  /\ Len(outcome) = 2
  /\ ~answer.transportErr /\ answer.StatusCode = 200 /\ ~answer.decodeErr
  /\ answer.payload.Status # "OK"
  /\ answer.payload.ErrorMessage = ""
  /\ answer.payload.Results = << >>
  /\ outcome[1].err = ErrAPIStatus(answer.payload.Status)
  /\ outcome[2] = 502

\* C16 as the specification words it: every stored value has source
\* "upstream".
C16_StoredSourceUpstream ==
  \A k \in DOMAIN items : items[k].value.Source = "upstream"

\* C16: in every reachable state the value of every cache entry has source
\* "google"; a hit sets source "cache" on the copy Geocode returns only: the
\* steps of a cache.Get that finds the entry, and the return of the hit,
\* leave every stored entry, value and expiry, as it was.
C16_StoredSource ==
  /\ [](\A k \in DOMAIN items :
          /\ items[k].value.Source = "google"
          /\ items[k].expires = lastSet[k].at + TTL)
  /\ [][\A p \in Procs :
          /\ pc[p] = "GetCheck" /\ pc'[p] = "Done" =>
               /\ ret'[p].err = Nil
               /\ ret'[p].result.Source = "cache"
               /\ item[p].value.Source = "google"
               /\ UNCHANGED <<items, lastSet>>
          /\ pc[p] \in {"GetRLock", "GetRead"} /\ Frame(p)' # Frame(p) =>
               UNCHANGED <<items, lastSet>>]_vars

\* a call has been served from the cache, with source "cache", some time
\* after the entry was stored, and the entry still has source "google" and
\* the expiry it was stored with
C16_Witness ==
  \E p \in Procs :
    /\ op[p] = "Geocode" /\ pc[p] = "Done" /\ getRet[p].ok
    /\ ret[p].result.Source = "cache"
    /\ key[p] \in DOMAIN items
    /\ items[key[p]].value.Source = "google"
    /\ Fields(items[key[p]].value) = Fields(ret[p].result)
    /\ lastSet[key[p]].at < now
    /\ items[key[p]].expires = lastSet[key[p]].at + TTL

\* C17: every invocation of Geocode eventually returns a Result or an
\* error, whatever the other invocations do, given that the upstream call
\* answers or is ended by the context and that the lock is fair.
C17_EventuallyReturns ==
  \A p \in Procs : pc[p] \notin {"Idle", "Done"} ~> pc[p] = "Done"

\* one invocation has returned an upstream failure and the other, which
\* waited for the lock behind it, a result
C17_Witness ==
  \E p, q \in Procs :
    /\ pc[p] = "Done" /\ ret[p].err = ErrTransport
    /\ pc[q] = "Done" /\ ret[q].err = Nil /\ nSet[q] = 1
    /\ getRet[p] = NoGetRet /\ nGet[p] = 1
    /\ now > 0

\* a step of goroutine p inside cache.Get or cache.Set
CacheStep(p) ==
  \/ GetRLock(p) \/ GetRead(p) \/ GetCheck(p) \/ GetLock(p) \/ GetDelete(p)
  \/ SetLock(p) \/ SetWrite(p)

\* C18: in every interleaving of Gets and Sets the map is read only by a
\* goroutine that holds the read lock and written (insert, delete) only by
\* the goroutine that holds the write lock; while a writer is in its
\* critical section there is no reader and no other writer; no goroutine
\* asks for the write lock while it holds the read lock; and as long as a
\* goroutine is inside Get or Set, one of them can take a step (no
\* deadlock).
C18_CacheSynchronization ==
  /\ [](\A p \in Procs :
          /\ pc[p] = "GetRead" <=> p \in readers
          /\ pc[p] \in {"GetDelete", "SetWrite"} <=> writer = p
          /\ pc[p] \in {"GetLock", "SetLock"} => p \notin readers)
  /\ [](writer # NoProc => readers = {})
  /\ []((\E p \in Procs : pc[p] \notin {"Idle", "Done"})
          => \E q \in Procs : ENABLED CacheStep(q))
  /\ [][items' # items =>
          \E p \in Procs :
            /\ writer = p /\ pc[p] \in {"GetDelete", "SetWrite"}
            /\ pc'[p] = "Done" /\ writer' = NoProc]_vars

\* one goroutine holds the read lock for a key while the other waits for
\* the write lock to set it, and the cache holds an entry
C18_Witness ==
  \E p, q \in Procs :
    /\ p \in readers /\ pc[p] = "GetRead"
    /\ pc[q] = "SetLock" /\ key[q] = key[p]
    /\ key[p] \in DOMAIN items
    /\ ~ENABLED SetLock(q)

\* the string is not empty, has no upper-case letter and neither begins
\* nor ends with white space
IsNormal(k) ==
  /\ k # EmptyString
  /\ \A i \in 1..Len(k) : k[i] # "A"
  /\ k[1] # " " /\ k[Len(k)] # " "

\* C19: in every reachable state every key of the cache is a non-empty,
\* normalized address (normalizeAddress(k) = k), every key Geocode hands to
\* cache.Get or cache.Set is one, and every entry is created or replaced by
\* the cache.Set of a Geocode invocation for that same key whose upstream
\* call answered status "OK" with at least one result, the first of which is
\* what the entry holds.
C19_CacheKeyInvariant ==
  /\ [](\A k \in DOMAIN items :
          /\ IsNormal(k) /\ normalizeAddress(k) = k
          /\ lastSet[k].done /\ items[k].value = lastSet[k].value)
  /\ [](\A p \in Procs :
          /\ pc[p] \notin {"Idle", "Done"} =>
               IsNormal(key[p]) /\ key[p] = address[p]
          /\ pc[p] \in {"SetLock", "SetWrite"} =>
               /\ op[p] = "Geocode" /\ upstream[p].kind = "OK, results"
               /\ Fields(val[p]) =
                    << upstream[p].first.FormattedAddress,
                       upstream[p].first.Lat, upstream[p].first.Lng >>)
  /\ [][\A k \in DOMAIN items' :
          Written(k) =>
            \E p \in Procs :
              /\ op[p] = "Geocode" /\ pc[p] = "SetWrite" /\ pc'[p] = "Done"
              /\ key[p] = k /\ address[p] = k
              /\ upstream[p].kind = "OK, results"
              /\ nUp[p] = 1
              /\ Fields(items'[k].value) =
                   << upstream[p].first.FormattedAddress,
                      upstream[p].first.Lat, upstream[p].first.Lng >>
              /\ ret'[p].err = Nil]_vars

\* the cache holds an entry under the normalized key, stored by a Geocode
\* call whose upstream answer was "OK" with a result, while another call
\* for the same address has failed upstream and stored nothing
C19_Witness ==
  \E p, q \in Procs :
    /\ op[p] = "Geocode" /\ pc[p] = "Done" /\ ret[p].err = Nil
    /\ nSet[p] = 1 /\ upstream[p].kind = "OK, results"
    /\ key[p] \in DOMAIN items /\ IsNormal(key[p])
    /\ Fields(items[key[p]].value) =
         << upstream[p].first.FormattedAddress,
            upstream[p].first.Lat, upstream[p].first.Lng >>
    /\ op[q] = "Geocode" /\ pc[q] = "Done" /\ key[q] = key[p]
    /\ upstream[q].kind \in {"OK, no results", "not OK, results"}
    /\ nSet[q] = 0

\* C20: a Geocode call entered with a context that is already done, begun
\* while the entry of the last completed Set for its normalized address is
\* unexpired and returning before that expiry, returns the stored address,
\* latitude and longitude with source "cache" and a nil error, with no
\* upstream request; and a call returns DeadlineExceeded or Canceled only
\* after its cache.Get has missed and its one upstream request was cut
\* short by the context.
C20_HitIgnoresContext ==
  \A p \in Procs :
    /\ /\ op[p] = "Geocode" /\ pc[p] = "Done" /\ ctxDone[p]
       /\ pre[p].live /\ ~After(now, pre[p].expires)
       => /\ ret[p].err = Nil
          /\ ret[p].result.Source = "cache"
          /\ getRet[p].ok
          /\ Fields(ret[p].result) = Fields(getRet[p].value)
          /\ nUp[p] = 0
    /\ /\ op[p] = "Geocode" /\ pc[p] = "Done"
       /\ ret[p].err \in {DeadlineExceeded, Canceled}
       => ~getRet[p].ok /\ nUp[p] = 1 /\ ctxDone[p]

\* the string has a character that is not white space
HasLetter(s) == \E i \in 1..Len(s) : s[i] # " "

\* C12: a GET /geocode request is answered with at most one status, which
\* what happened determines: 400 exactly when nothing but white space is in
\* the address (Geocode is then not called, so its ErrAddressRequired never
\* becomes a 502); else 404 for ErrNoResults, 504 for the context's
\* deadline or cancellation, 502 for any other error of Geocode, and 200 for
\* a result.
C12_StatusMapping ==
  \A p \in Procs :
    query[p].pending =>
      /\ Len(status[p]) <= 1
      /\ ~HasLetter(query[p].address) =>
           status[p] = <<400>> /\ op[p] = "none"
      /\ HasLetter(query[p].address) =>
           /\ op[p] = "Geocode"
           /\ address[p] # EmptyString
           /\ ret[p].err # ErrAddressRequired
           /\ status[p] # << >> =>
                /\ pc[p] = "Done"
                /\ status[p][1] =
                     CASE ret[p].err = Nil -> 200
                       [] ret[p].err = ErrNoResults -> 404
                       [] ret[p].err \in {DeadlineExceeded, Canceled} -> 504
                       [] OTHER -> 502
                /\ status[p][1] = 200 <=> ret[p].result # ZeroResult
                /\ status[p][1] = 404 <=> upstream[p].kind = "OK, no results"
                /\ status[p][1] = 504 <=> upstream[p] = NoAnswer /\ nUp[p] = 1
                /\ status[p][1] # 400

\* one request has been answered 400 for an address of white space only,
\* the other 504 after its upstream call ended with the deadline
C12_Witness ==
  \E p, q \in Procs :
    /\ query[p].pending /\ query[p].address # EmptyString
    /\ status[p] = <<400>>
    /\ query[q].pending /\ status[q] = <<504>>
    /\ ret[q].err = DeadlineExceeded

\* Two strings that differ only by the case of their letters or by leading
\* or trailing white space: some white space taken off the ends of each
\* leaves two strings of one length that agree, character by character, up
\* to case.  (Stated on the characters, not through the code's functions.)
SameUpToCase(u, v) ==
  /\ Len(u) = Len(v)
  /\ \A i \in 1..Len(u) : u[i] = v[i] \/ {u[i], v[i]} = {"a", "A"}
SpacesOutside(s, i, j) ==
  \A x \in (1..(i - 1)) \cup ((j + 1)..Len(s)) : s[x] = " "
DifferOnlyByCaseOrOuterSpace(s, t) ==
  \E i \in 1..(Len(s) + 1), j \in 0..Len(s),
     k \in 1..(Len(t) + 1), l \in 0..Len(t) :
    /\ i <= j + 1 /\ k <= l + 1
    /\ SpacesOutside(s, i, j) /\ SpacesOutside(t, k, l)
    /\ SameUpToCase(SubSeq(s, i, j), SubSeq(t, k, l))

\* C10: normalizeAddress is idempotent (applied to its own result it returns
\* that result), and two raw inputs that differ only by letter case or by
\* leading/trailing white space normalize to the same string, the one Geocode
\* uses as cache key and as upstream query parameter.
C10_Normalization ==
  /\ Len(norm) = 4 => norm[3] = norm[1] /\ norm[4] = norm[2]
  /\ Len(norm) >= 2 /\ DifferOnlyByCaseOrOuterSpace(raw[1], raw[2])
       => norm[1] = norm[2]

\* two different spellings, neither of them normalized, of one non-empty
\* address, each normalized twice
C10_Witness ==
  /\ Len(norm) = 4
  /\ raw[1] # raw[2]
  /\ DifferOnlyByCaseOrOuterSpace(raw[1], raw[2])
  /\ norm[1] # EmptyString
  /\ norm[1] # raw[1] /\ norm[1] # raw[2]
  /\ Len(raw[1]) # Len(raw[2])

====
